---------------------------- MODULE Spec2Model ----------------------------
(***************************************************************************)
(* Model of the extension popup (src/extension/popup.js) of the YouTube    *)
(* RAG assistant: the click handlers, their continuations after each       *)
(* await, the chrome.storage.local callbacks and the requests to the       *)
(* backend.                                                                *)
(*                                                                         *)
(* The popup is one JavaScript thread: every action below is one           *)
(* run-to-completion piece of a handler (from an event, a storage callback *)
(* or the settling of an awaited promise up to the next await or return).  *)
(*                                                                         *)
(* chrome.storage.local serves the requests of one page in the order they  *)
(* were issued and delivers the callbacks in that order.  A get therefore  *)
(* sees exactly the sets issued before it: the model applies a set when it *)
(* is issued, takes a get's snapshot when it is issued, and runs the       *)
(* callbacks first in, first out (storageCallbacks).                       *)
(*                                                                         *)
(* The pure functions of the file (timestampToSeconds, linkifyTimestamps,  *)
(* surgicalExtract) are operators on character sequences; each has a       *)
(* small specification of its own that draws its inputs and applies it     *)
(* (CitationSpec, LinkifySpec, ExtractSpec).                               *)
(***************************************************************************)
EXTENDS Integers, Sequences, FiniteSets, TLC

\* ------------------------------------------------------------- bounds
\* Number of user gestures (clicks) in one run of the popup.
MaxClicks == 2
\* Number of sessions a run may create by resync (ids 1..MaxResync).
MaxResync == 1
\* The user makes a gesture only while fewer than MaxPending storage
\* callbacks and awaited promises are outstanding.
MaxPending == 2
\* The longest duration, in seconds, whose citation label is parsed.
MaxSeconds == 7325
\* Number of pieces (markers, characters of other text) in an answer.
MaxTokens == 3
\* Number of transcript segments on a page.
MaxSegments == 2

\* ---------------------------------------------------------- constants
\* currentSessionId = null.  As an object key null is the property "null";
\* the model uses the same value for the variable and for that key.
NoSession == 0
\* Keys of the stored map: "null", the ids of this run, the earlier id.
SessionIds == 0..(MaxResync + 1)
NoTranscript == "none"
NoToken == ""
SomeToken == "hf"
Videos == {"v1", "v2"}
OtherTab == "other"
\* The transcript surgicalExtract scrapes from the page of a video.
TranscriptOf(url) == IF url = "v1" THEN "T1" ELSE "T2"
Questions == {"", "q"}

\* ------------------------------------------------ timestamp utilities
\* A string is the sequence of its characters, each a one-character string.
Digits == <<"0", "1", "2", "3", "4", "5", "6", "7", "8", "9">>
IsDigit(c) == \E n \in 1..10 : Digits[n] = c
DigitValue(c) == (CHOOSE n \in 1..10 : Digits[n] = c) - 1
\* \s of the pattern, and the white space parseInt skips.
IsSpace(c) == c = " "
\* The character at index i (from 1), "" past either end.
At(text, i) == IF i >= 1 /\ i <= Len(text) THEN text[i] ELSE ""
\* parseInt of a string that does not start with a number; any sum with it.
NaN == -1

\* hms.split(':')
RECURSIVE split(_)
split(s) ==
    IF \A i \in 1..Len(s) : s[i] # ":"
    THEN <<s>>
    ELSE LET i == CHOOSE k \in 1..Len(s) :
                      s[k] = ":" /\ \A j \in 1..(k - 1) : s[j] # ":"
         IN  <<SubSeq(s, 1, i - 1)>> \o split(SubSeq(s, i + 1, Len(s)))

\* Array.prototype.reverse
reverse(parts) == [i \in 1..Len(parts) |-> parts[Len(parts) + 1 - i]]

\* parseInt(string): skips leading white space, reads the decimal digits up
\* to the first other character, NaN when there is none.  (A sign is not
\* modelled: the strings parsed here are pieces of a timestamp match.)
RECURSIVE parseDigits(_, _)
parseDigits(s, n) ==
    IF s = <<>> \/ ~IsDigit(Head(s))
    THEN n
    ELSE parseDigits(Tail(s), 10 * n + DigitValue(Head(s)))

RECURSIVE trimStart(_)
trimStart(s) == IF s # <<>> /\ IsSpace(Head(s)) THEN trimStart(Tail(s)) ELSE s

parseInt(s) ==
    LET t == trimStart(s)
    IN  IF t = <<>> \/ ~IsDigit(Head(t)) THEN NaN ELSE parseDigits(t, 0)

\* The loop of popup.js:14-16 from index i with the sum so far.
RECURSIVE addParts(_, _, _)
addParts(parts, i, seconds) ==
    IF i >= Len(parts)
    THEN seconds
    ELSE LET n == parseInt(parts[i + 1])
         IN  addParts(parts, i + 1,
                      IF seconds = NaN \/ n = NaN THEN NaN
                      ELSE seconds + n * 60^i)

timestampToSecondsInOrder(hms) == addParts(split(hms), 0, 0)
\* popup.js:11-18
timestampToSeconds(hms) == addParts(reverse(split(hms)), 0, 0)

\* `${seconds}`: the decimal digits of a number, "NaN" for NaN.
RECURSIVE toString(_)
toString(n) ==
    IF n = NaN THEN <<"N", "a", "N">>
    ELSE IF n < 10 THEN <<Digits[n + 1]>>
    ELSE toString(n \div 10) \o <<Digits[(n % 10) + 1]>>

\* \d{1,2}:\d{2}(?::\d{2})? at index i: the length it matches, 0 for no
\* match.  The quantifiers are greedy; giving a digit back never helps,
\* since the character after one digit would have to be the colon.
timestampAt(text, i) ==
    LET d == IF IsDigit(At(text, i)) /\ IsDigit(At(text, i + 1))
                                     /\ At(text, i + 2) = ":" THEN 2
             ELSE IF IsDigit(At(text, i)) /\ At(text, i + 1) = ":" THEN 1
             ELSE 0
        j == i + d + 1
    IN  IF d = 0 \/ ~IsDigit(At(text, j)) \/ ~IsDigit(At(text, j + 1)) THEN 0
        ELSE IF /\ At(text, j + 2) = ":"
                /\ IsDigit(At(text, j + 3))
                /\ IsDigit(At(text, j + 4)) THEN d + 6
        ELSE d + 3

\* \s* at index i
RECURSIVE spacesAt(_, _)
spacesAt(text, i) == IF IsSpace(At(text, i)) THEN 1 + spacesAt(text, i + 1) ELSE 0

rangeNever(text, i) == 0
\* (?:\s*-\s*(timestamp))? at index i: the length it matches, 0 if skipped.
rangeAt(text, i) ==
    LET a == spacesAt(text, i)
        b == spacesAt(text, i + a + 1)
        t == timestampAt(text, i + a + 1 + b)
    IN  IF At(text, i + a) = "-" /\ t > 0 THEN a + 1 + b + t ELSE 0

IsOpen(c) == c \in {"[", "("}
IsClose(c) == c \in {"]", ")"}

\* The whole pattern of popup.js:26 at index i: the length of the match
\* (0 for no match) and its first group.  After an opening bracket the
\* timestamp must follow; without it the bracket is no timestamp either.
matchAt(text, i) ==
    LET open == IF IsOpen(At(text, i)) THEN 1 ELSE 0
        ts == timestampAt(text, i + open)
        range == rangeAt(text, i + open + ts)
        close == IF IsClose(At(text, i + open + ts + range)) THEN 1 ELSE 0
    IN  IF ts = 0
        THEN [length |-> 0, startTime |-> <<>>]
        ELSE [length |-> open + ts + range + close,
              startTime |-> SubSeq(text, i + open, i + open + ts - 1)]

\* The pieces of the returned HTML: a character, or one link
\* <a href="#" class="time-link" data-time="time">text</a>.
Plain(c) == [link |-> FALSE, time |-> <<>>, text |-> <<c>>]
Anchor(time, text) == [link |-> TRUE, time |-> time, text |-> text]

\* text.replace(regex, ...) with the g flag, from index i on: matches are
\* looked for left to right and the search resumes after each match.
RECURSIVE replace(_, _)
replace(text, i) ==
    IF i > Len(text) THEN <<>>
    ELSE LET m == matchAt(text, i)
         IN  IF m.length = 0
             THEN <<Plain(text[i])>> \o replace(text, i + 1)
             ELSE <<Anchor(toString(timestampToSeconds(m.startTime)),
                           SubSeq(text, i, i + m.length - 1))>>
                  \o replace(text, i + m.length)

\* popup.js:24-31
linkifyTimestamps(text) == replace(text, 1)

\* --------------------------------------------------- surgicalExtract
\* String.prototype.trim
RECURSIVE trimEnd(_)
trimEnd(s) ==
    IF s # <<>> /\ IsSpace(s[Len(s)]) THEN trimEnd(SubSeq(s, 1, Len(s) - 1)) ELSE s
trim(s) == trimEnd(trimStart(s))

\* What s.querySelector(...) finds in a segment: an element with its
\* textContent, or nothing.
Element(textContent) == [found |-> TRUE, textContent |-> textContent]
NoElement == [found |-> FALSE, textContent |-> <<>>]
\* element?.textContent.trim(): undefined when there is no element.
Undefined == [defined |-> FALSE, value |-> <<>>]
trimmedContent(el) ==
    IF el.found THEN [defined |-> TRUE, value |-> trim(el.textContent)] ELSE Undefined

orNever(v, default) == v.value
\* v || default: the default for undefined and for the empty string.
or(v, default) == IF ~v.defined \/ v.value = <<>> THEN default ELSE v.value

\* The value returned (popup.js:325-328): null, or the array of records.
Null == [null |-> TRUE, records |-> <<>>]
Records(records) == [null |-> FALSE, records |-> records]
ZeroTime == <<"0", ":", "0", "0">>
\* popup.js:324-328, on the segments the page shows once the panel has
\* been opened.
surgicalExtract(page) ==
    IF Len(page) = 0
    THEN Null
    ELSE Records([k \in 1..Len(page) |->
                    [time |-> or(trimmedContent(page[k].timestamp), ZeroTime),
                     text |-> or(trimmedContent(page[k].text), <<>>)]])

\* The segments a page may show: the timestamp and the text element of
\* each are missing, empty, blank or filled in.
TimestampElements ==
    {NoElement, Element(<<>>), Element(<<" ">>), Element(<<" ", "1", ":", "0", "5">>)}
TextElements ==
    {NoElement, Element(<<>>), Element(<<"a">>), Element(<<"b", " ">>)}
Segments == [timestamp : TimestampElements, text : TextElements]
Pages == UNION {[1..n -> Segments] : n \in 0..MaxSegments}

\* The citation label of a duration of whole seconds: MM:SS when the
\* hours are 0, HH:MM:SS otherwise (the backend's map_to_citation).
Pad2(n) == <<Digits[(n \div 10) + 1], Digits[(n % 10) + 1]>>
map_to_citation(s) ==
    LET h == s \div 3600
        m == (s % 3600) \div 60
        sec == s % 60
    IN  IF h = 0
        THEN Pad2(m) \o <<":">> \o Pad2(sec)
        ELSE Pad2(h) \o <<":">> \o Pad2(m) \o <<":">> \o Pad2(sec)

\* The pieces of an answer of the generation step: a timestamp marker of
\* one of the forms [MM:SS], (MM:SS - MM:SS), bare MM:SS, also with
\* HH:MM:SS timestamps, or one character of other text.  A marker carries
\* the number of seconds of its start timestamp.
Stamp0105 == [time |-> 65, text |-> <<"0", "1", ":", "0", "5">>]
Stamp0210 == [time |-> 130, text |-> <<"0", "2", ":", "1", "0">>]
Stamp010203 == [time |-> 3723, text |-> <<"0", "1", ":", "0", "2", ":", "0", "3">>]
Stamp010310 == [time |-> 3790, text |-> <<"0", "1", ":", "0", "3", ":", "1", "0">>]
CitedRanges == {<<Stamp0105, Stamp0210>>, <<Stamp010203, Stamp010310>>}
OtherText == {"a", " ", "-", "(", ")"}
Square(s) == [form |-> "square", time |-> s.time,
              text |-> <<"[">> \o s.text \o <<"]">>]
Range(s, e) == [form |-> "range", time |-> s.time,
                text |-> <<"(">> \o s.text \o <<" ", "-", " ">> \o e.text \o <<")">>]
Bare(s) == [form |-> "bare", time |-> s.time, text |-> s.text]
Other(c) == [form |-> "other", time |-> 0, text |-> <<c>>]
Markers == {Square(r[1]) : r \in CitedRanges} \cup {Range(r[1], r[2]) : r \in CitedRanges}
           \cup {Bare(r[1]) : r \in CitedRanges}
Pieces == Markers \cup {Other(c) : c \in OtherText}
Answers == UNION {[1..n -> Pieces] : n \in 1..MaxTokens}
RECURSIVE Flatten(_)
Flatten(pieces) == IF pieces = <<>> THEN <<>> ELSE Head(pieces).text \o Flatten(Tail(pieces))

VARIABLES
    currentSessionId,   \* popup.js:4
    sessions,           \* chrome.storage.local "sessions": id -> record
    hfToken,            \* chrome.storage.local "hfToken"
    storageCallbacks,   \* issued storage gets whose callback has not run
    requests,           \* awaited promises: fetches, tab query, script
    chatContainer,      \* children of #chat-container, in order
    questionInputDisabled,
    askBtnDisabled,
    resyncBtnDisabled,
    backendTranscript,  \* transcript indexed at the backend
    clicks,             \* gestures so far; numbers the started handlers
    idClock,            \* Date.now(): number of ids handed out
    openData,           \* const sessions of the DOMContentLoaded callback
    appended,           \* per session, the messages appendMessage was
                        \* called with to save while it was current
    lastStep,           \* the step that was taken last
    start_time,         \* a chunk's start time, in whole seconds
    hms,                \* the citation label made from start_time
    answer,             \* data.answer of a /chat response, in pieces
    segments,           \* the transcript segments of the page, in order
    returned            \* <<value>> once the utility called has returned

popup == <<currentSessionId, sessions, hfToken, storageCallbacks, requests,
          chatContainer, questionInputDisabled, askBtnDisabled,
          resyncBtnDisabled, backendTranscript, clicks, idClock, openData,
          appended, lastStep>>
utilities == <<start_time, hms, answer, segments, returned>>
vars == <<popup, utilities>>

\* ------------------------------------------------------------ helpers
EmptySessions == [i \in {} |-> 0]
Put(f, k, v) == [x \in DOMAIN f \cup {k} |-> IF x = k THEN v ELSE f[x]]
Del(f, k) == [x \in DOMAIN f \ {k} |-> f[x]]
Has(f, k) == k \in DOMAIN f

\* One child of #chat-container.  el is 0, or the number of the handler
\* that keeps a reference to the element and removes it later.
Bubble(sender, text, el) == [sender |-> sender, text |-> text, el |-> el]
\* One entry of a session's chatHistory (popup.js:141).
Saved(sender, text, isHTML) == [sender |-> sender, text |-> text, isHTML |-> isHTML]
NoMsg == Saved("", "", FALSE)

\* element.remove(): the element leaves the container if it is still there.
RECURSIVE Remove(_, _)
Remove(c, el) ==
    IF c = <<>> THEN <<>>
    ELSE IF Head(c).el = el THEN Tail(c)
    ELSE <<Head(c)>> \o Remove(Tail(c), el)

\* A pending chrome.storage.local.get: the continuation k, the data the get
\* was served with and the variables its callback closes over.
Callback(k, n, data, tok, id, msg, url, tr, q) ==
    [k |-> k, n |-> n, data |-> data, tok |-> tok, id |-> id, msg |-> msg,
     url |-> url, tr |-> tr, q |-> q]
AppendCallback(data, msg) ==
    Callback("append", 0, data, NoToken, NoSession, msg, "", NoTranscript, "")

\* An awaited promise of handler number n.  st is "sent" until the other
\* side has answered, then the outcome.
Request(kind, n, st, id, url, tr, hist, q, tok) ==
    [kind |-> kind, n |-> n, st |-> st, id |-> id, url |-> url, tr |-> tr,
     hist |-> hist, q |-> q, tok |-> tok]
Settled(t, st) == [t EXCEPT !.st = st]

\* How a fetch of /save_transcript or /clear_context settles in the popup:
\* the response is OK, it is not OK, or the fetch rejects.  A request the
\* backend answered with OK settles as "ok"; any other request may settle
\* as "notok" or "rejected", and leaves the backend as it is.
Outcomes == {"ok", "notok", "rejected"}
Answered(t, outcome) ==
    \/ t.st = "ok" /\ outcome = "ok"
    \/ t.st = "sent" /\ outcome \in {"notok", "rejected"}

\* The step taken last, when it ended a handler or sent a request: its
\* name, the number of its handler, the outcome it saw and the session it
\* was started for.  Any other step leaves OtherStep.
Step(ev, n, resp, id) == [ev |-> ev, n |-> n, resp |-> resp, id |-> id]
OtherStep == Step("", 0, "", NoSession)

\* appendMessage (popup.js:120-148): the bubble is appended; with
\* shouldSave and a current session a storage get is issued whose callback
\* pushes the message.  The two operators give the new container and the
\* new callback queue.
AppendBubble(c, sender, text, el) == Append(c, Bubble(sender, text, el))
AppendSave(cbs, cur, store, sender, text, isHTML, shouldSave) ==
    IF shouldSave /\ cur # NoSession
    THEN Append(cbs, AppendCallback(store, Saved(sender, text, isHTML)))
    ELSE cbs

\* What appendMessage is asked to save for the current session.
Logged(log, cur, sender, text, isHTML, shouldSave) ==
    IF shouldSave /\ cur # NoSession
    THEN [log EXCEPT ![cur] = Append(@, Saved(sender, text, isHTML))]
    ELSE log

\* The session record the resync stores (popup.js:367-372).
NewSession(url, tr) == [videoUrl |-> url, chatHistory |-> <<>>, transcriptData |-> tr]

\* --------------------------------------------------------------- Init
\* The popup has just been opened: no handler has run, the chat is empty,
\* question input and ask button are disabled.  Local storage outlives the
\* popup: it holds a session stored by an earlier run (a run that never
\* touches that session behaves as on an empty storage).
\* The DOMContentLoaded handler (popup.js:273-294) has issued its get of
\* "sessions"; its get of "hfToken" only fills the token field of the API tab.
OpenHandler == MaxClicks + 1
OpenCallback(data) ==
    Callback("open", OpenHandler, data, NoToken, NoSession, NoMsg, "", NoTranscript, "")
StoredBefore == Put(EmptySessions, MaxResync + 1, NewSession("v1", TranscriptOf("v1")))

PopupOpened ==
    /\ currentSessionId = NoSession
    /\ sessions = StoredBefore
    /\ hfToken = NoToken
    /\ storageCallbacks = <<OpenCallback(sessions)>>
    /\ requests = {}
    /\ chatContainer = <<>>
    /\ questionInputDisabled = TRUE
    /\ askBtnDisabled = TRUE
    /\ resyncBtnDisabled = FALSE
    /\ backendTranscript = NoTranscript
    /\ clicks = 0
    /\ idClock = 0
    /\ openData = EmptySessions
    /\ appended = [id \in SessionIds |-> <<>>]
    /\ lastStep = OtherStep

\* No utility is exercised while the popup runs.
Init ==
    /\ PopupOpened
    /\ start_time = 0
    /\ hms = <<>>
    /\ answer = <<>>
    /\ segments = <<>>
    /\ returned = <<>>

\* A gesture of the user is possible.
Gesture == /\ clicks < MaxClicks
           /\ Len(storageCallbacks) + Cardinality(requests) < MaxPending

\* ------------------------------------------------- performFullClear
\* popup.js:38-49: the Clear button, up to the await of /clear_context.
\* The request remembers the session that was current (id).
ClearClick ==
    /\ Gesture
    /\ clicks' = clicks + 1
    /\ lastStep' = OtherStep
    /\ \/ /\ currentSessionId = NoSession
          /\ chatContainer' = <<>>
          /\ UNCHANGED requests
       \/ /\ currentSessionId # NoSession
          /\ \E confirmClear \in BOOLEAN :
                IF confirmClear
                THEN requests' = requests \cup
                        {Request("clear", clicks', "sent", currentSessionId, "",
                                 NoTranscript, <<>>, "", NoToken)}
                ELSE UNCHANGED requests
          /\ UNCHANGED chatContainer
    /\ UNCHANGED <<currentSessionId, sessions, hfToken, storageCallbacks,
                   questionInputDisabled, askBtnDisabled, resyncBtnDisabled,
                   backendTranscript, idClock, openData, appended>>

\* popup.js:51-67 when the fetch resolved (res.ok is not looked at), and
\* popup.js:69-71 when it rejected.
ClearResolved(t) ==
    /\ storageCallbacks' = Append(storageCallbacks,
            Callback("clear", t.n, sessions, NoToken, t.id, NoMsg, "", NoTranscript, ""))
    /\ chatContainer' = AppendBubble(<<>>, "system", "wiped", 0)
    /\ currentSessionId' = NoSession
    /\ questionInputDisabled' = TRUE
    /\ askBtnDisabled' = TRUE

ClearRejected(t) ==
    /\ chatContainer' = AppendBubble(chatContainer, "system", "clearFailed", 0)
    /\ UNCHANGED <<storageCallbacks, currentSessionId, questionInputDisabled,
                   askBtnDisabled>>

ClearResume ==
    \E t \in requests, outcome \in Outcomes :
        /\ t.kind = "clear"
        /\ Answered(t, outcome)
        /\ IF outcome = "rejected" THEN ClearRejected(t) ELSE ClearResolved(t)
        /\ requests' = requests \ {t}
        /\ lastStep' = Step("clearResume", t.n, outcome, t.id)
        /\ UNCHANGED <<sessions, hfToken, resyncBtnDisabled, backendTranscript,
                       clicks, idClock, openData, appended>>

\* popup.js:52-59, the callback of the get: currentSessionId is read when
\* the callback runs.  (renderHistory only redraws the History tab.)
ClearStored(data, cur) == IF Has(data, cur) THEN Del(data, cur) ELSE sessions

ClearCallback ==
    /\ storageCallbacks # <<>>
    /\ Head(storageCallbacks).k = "clear"
    /\ sessions' = ClearStored(Head(storageCallbacks).data, currentSessionId)
    /\ storageCallbacks' = Tail(storageCallbacks)
    /\ lastStep' = Step("clearCallback", Head(storageCallbacks).n, "",
                        Head(storageCallbacks).id)
    /\ UNCHANGED <<currentSessionId, hfToken, requests, chatContainer,
                   questionInputDisabled, askBtnDisabled, resyncBtnDisabled,
                   backendTranscript, clicks, idClock, openData, appended>>

\* ----------------------------------------------------- appendMessage
\* popup.js:139-145, the callback of the get issued by appendMessage:
\* currentSessionId is read when the callback runs, and the whole map the
\* get was served with is written back.
AppendStored(data, cur, msg) ==
    IF Has(data, cur)
    THEN Put(data, cur, [data[cur] EXCEPT !.chatHistory = Append(@, msg)])
    ELSE sessions

AppendCallbackRun ==
    /\ storageCallbacks # <<>>
    /\ Head(storageCallbacks).k = "append"
    /\ sessions' = AppendStored(Head(storageCallbacks).data, currentSessionId,
                                Head(storageCallbacks).msg)
    /\ storageCallbacks' = Tail(storageCallbacks)
    /\ lastStep' = OtherStep
    /\ UNCHANGED <<currentSessionId, hfToken, requests, chatContainer,
                   questionInputDisabled, askBtnDisabled, resyncBtnDisabled,
                   backendTranscript, clicks, idClock, openData, appended>>

\* ------------------------------------------------ loadSpecificSession
\* popup.js:220-221: the get is issued.  Called from the click on a
\* session of the History tab (popup.js:107-110) and from the
\* DOMContentLoaded handler (popup.js:285).
LoadIssued(cbs, n, id) ==
    Append(cbs, Callback("load", n, sessions, NoToken, id, NoMsg, "", NoTranscript, ""))

\* The History tab lists sessions that are or were stored; the entry
\* stored under the key "null" is not clicked.
Listed == (DOMAIN sessions \cup 1..idClock) \ {NoSession}

RestoreClick ==
    /\ Gesture
    /\ clicks' = clicks + 1
    /\ \E id \in Listed :
          storageCallbacks' = LoadIssued(storageCallbacks, clicks', id)
    /\ lastStep' = OtherStep
    /\ UNCHANGED <<currentSessionId, sessions, hfToken, requests, chatContainer,
                   questionInputDisabled, askBtnDisabled, resyncBtnDisabled,
                   backendTranscript, idClock, openData, appended>>

\* popup.js:221-237, the callback of the get up to the await of
\* /save_transcript.
LoadCallback ==
    /\ storageCallbacks # <<>>
    /\ Head(storageCallbacks).k = "load"
    /\ LET cb == Head(storageCallbacks)
       IN  IF ~Has(cb.data, cb.id)
           THEN /\ lastStep' = OtherStep
                /\ UNCHANGED <<currentSessionId, chatContainer, requests>>
           ELSE /\ currentSessionId' = cb.id
                /\ chatContainer' = AppendBubble(<<>>, "system", "restoring", cb.n)
                /\ requests' = requests \cup
                       {Request("restore", cb.n, "sent", cb.id, cb.data[cb.id].videoUrl,
                                cb.data[cb.id].transcriptData,
                                cb.data[cb.id].chatHistory, "", NoToken)}
                /\ lastStep' = Step("loadCallback", cb.n, "", cb.id)
    /\ storageCallbacks' = Tail(storageCallbacks)
    /\ UNCHANGED <<sessions, hfToken, questionInputDisabled, askBtnDisabled,
                   resyncBtnDisabled, backendTranscript, clicks, idClock, openData, appended>>

\* popup.js:241-243: the stored messages are shown again, none is saved.
RECURSIVE Replay(_, _)
Replay(c, hist) ==
    IF hist = <<>> THEN c
    ELSE Replay(AppendBubble(c, Head(hist).sender, Head(hist).text, 0), Tail(hist))

\* popup.js:239-247: the response is OK.
RestoreOk(t) ==
    /\ chatContainer' = Replay(Remove(chatContainer, t.n), t.hist)
    /\ questionInputDisabled' = FALSE
    /\ askBtnDisabled' = FALSE

\* popup.js:248-254: the response is not OK, or the fetch rejected.
RestoreFailed(t) ==
    /\ chatContainer' = AppendBubble(Remove(chatContainer, t.n), "system",
                                     "restoreFailed", 0)
    /\ UNCHANGED <<questionInputDisabled, askBtnDisabled>>

\* A restore that took every response for OK (without the test of
\* response.ok).
RestoreResponseAny(st) == st # "rejected"
\* popup.js:239: the fetch resolved and response.ok holds.
RestoreResponseOk(st) == st = "ok"

RestoreResume ==
    \E t \in requests, outcome \in Outcomes :
        /\ t.kind = "restore"
        /\ Answered(t, outcome)
        /\ IF RestoreResponseOk(outcome) THEN RestoreOk(t) ELSE RestoreFailed(t)
        /\ requests' = requests \ {t}
        /\ lastStep' = Step("restoreResume", t.n, outcome, t.id)
        /\ UNCHANGED <<currentSessionId, sessions, hfToken, storageCallbacks,
                       resyncBtnDisabled, backendTranscript, clicks, idClock, openData, appended>>

\* ------------------------------------------------ clearSelectedHistory
\* popup.js:258-262: the Clear Selected button of the History tab with one
\* session ticked; the get is issued.
ClearSelectedClick ==
    /\ Gesture
    /\ clicks' = clicks + 1
    /\ \E id \in Listed :
          storageCallbacks' = Append(storageCallbacks,
              Callback("clearSelected", clicks', sessions, NoToken, id, NoMsg,
                       "", NoTranscript, ""))
    /\ lastStep' = OtherStep
    /\ UNCHANGED <<currentSessionId, sessions, hfToken, requests, chatContainer,
                   questionInputDisabled, askBtnDisabled, resyncBtnDisabled,
                   backendTranscript, idClock, openData, appended>>

\* popup.js:262-265, the callback of the get: the ticked session is
\* deleted from the map the get returned and the map is written back.
ClearSelectedCallback ==
    /\ storageCallbacks # <<>>
    /\ Head(storageCallbacks).k = "clearSelected"
    /\ sessions' = Del(Head(storageCallbacks).data, Head(storageCallbacks).id)
    /\ storageCallbacks' = Tail(storageCallbacks)
    /\ lastStep' = OtherStep
    /\ UNCHANGED <<currentSessionId, hfToken, requests, chatContainer,
                   questionInputDisabled, askBtnDisabled, resyncBtnDisabled,
                   backendTranscript, clicks, idClock, openData, appended>>

\* ---------------------------------------------------- DOMContentLoaded
\* popup.js:278-279, the callback of the get of "sessions" up to the await
\* of the tab query.
OpenCallbackRun ==
    /\ storageCallbacks # <<>>
    /\ Head(storageCallbacks).k = "open"
    /\ requests' = requests \cup
           {Request("open", OpenHandler, "query", NoSession, "", NoTranscript,
                    <<>>, "", NoToken)}
    /\ openData' = Head(storageCallbacks).data
    /\ storageCallbacks' = Tail(storageCallbacks)
    /\ lastStep' = OtherStep
    /\ UNCHANGED <<currentSessionId, sessions, hfToken, chatContainer,
                   questionInputDisabled, askBtnDisabled, resyncBtnDisabled,
                   backendTranscript, clicks, idClock, appended>>

\* A handler that took any stored session for the tab's.
ExistingAny(data, url) == DOMAIN data
\* popup.js:280-291, after the tab query.  Object.keys(sessions).find
\* takes the first stored session of the video, in key order.
Existing(data, url) == {id \in DOMAIN data : data[id].videoUrl = url}

OpenTab ==
    \E t \in requests :
        /\ t.kind = "open"
        /\ \E url \in Videos \cup {OtherTab} :
              IF url \in Videos /\ Existing(openData, url) # {}
              THEN /\ \E id \in Existing(openData, url) :
                         storageCallbacks' = LoadIssued(storageCallbacks, t.n, id)
                   /\ lastStep' = Step("openRestore", t.n, url, NoSession)
                   /\ UNCHANGED chatContainer
              ELSE /\ chatContainer' = AppendBubble(chatContainer, "system",
                         IF url \in Videos THEN "newVideo" ELSE "navigate", 0)
                   /\ lastStep' = Step("openNoSession", t.n, url, NoSession)
                   /\ UNCHANGED storageCallbacks
        /\ requests' = requests \ {t}
        /\ UNCHANGED <<currentSessionId, sessions, hfToken, questionInputDisabled,
                       askBtnDisabled, resyncBtnDisabled, backendTranscript,
                       clicks, idClock, openData, appended>>

\* -------------------------------------------------------------- resync
\* popup.js:334-337: the Resync button, up to the await of the tab query.
Resyncs == {t \in requests : t.kind = "resync"}

ResyncClick ==
    /\ Gesture
    /\ ~resyncBtnDisabled
    /\ idClock + Cardinality(Resyncs) < MaxResync
    /\ clicks' = clicks + 1
    /\ requests' = requests \cup
           {Request("resync", clicks', "query", NoSession, "", NoTranscript,
                    <<>>, "", NoToken)}
    /\ lastStep' = OtherStep
    /\ UNCHANGED <<currentSessionId, sessions, hfToken, storageCallbacks,
                   chatContainer, questionInputDisabled, askBtnDisabled,
                   resyncBtnDisabled, backendTranscript, idClock, openData, appended>>

\* popup.js:339-350: the tab is known; up to the await of executeScript.
ResyncTab ==
    \E t \in requests :
        /\ t.kind = "resync"
        /\ t.st = "query"
        /\ \E url \in Videos \cup {OtherTab} :
              IF url = OtherTab
              THEN /\ chatContainer' = AppendBubble(chatContainer, "system",
                                                    "notYouTube", 0)
                   /\ requests' = requests \ {t}
                   /\ lastStep' = Step("resyncNotYouTube", t.n, "", NoSession)
                   /\ UNCHANGED resyncBtnDisabled
              ELSE /\ resyncBtnDisabled' = TRUE
                   /\ chatContainer' = AppendBubble(<<>>, "system", "syncing", t.n)
                   /\ requests' = (requests \ {t}) \cup
                          {[t EXCEPT !.st = "extract", !.url = url]}
                   /\ lastStep' = OtherStep
        /\ UNCHANGED <<currentSessionId, sessions, hfToken, storageCallbacks,
                       questionInputDisabled, askBtnDisabled, backendTranscript,
                       clicks, idClock, openData, appended>>

\* popup.js:383-389: catch and finally of the resync handler.
ResyncFailed(t) ==
    /\ chatContainer' = AppendBubble(chatContainer, "system", "syncFailed", 0)
    /\ resyncBtnDisabled' = FALSE
    /\ requests' = requests \ {t}

\* popup.js:313-329, surgicalExtract: null when the page shows no
\* transcript segment, else the segments of the page.
Extracts(url) == {NoTranscript, TranscriptOf(url)}

\* A resync that sent whatever the script returned (without the test of
\* the result).
HasResultAlways(result) == TRUE
\* popup.js:352: results && results[0].result.
HasResult(result) == result # NoTranscript

\* popup.js:352-359 and 380-382: the result of the injected script is
\* there; a transcript is sent to /save_transcript.
ResyncExtracted ==
    \E t \in requests :
        /\ t.kind = "resync"
        /\ t.st = "extract"
        /\ \E result \in Extracts(t.url) :
              IF HasResult(result)
              THEN /\ requests' = (requests \ {t}) \cup
                          {[t EXCEPT !.st = "sent", !.tr = result]}
                   /\ lastStep' = Step("resyncSent", t.n, result, NoSession)
                   /\ UNCHANGED <<chatContainer, resyncBtnDisabled>>
              ELSE /\ ResyncFailed(t)
                   /\ lastStep' = Step("resyncNoTranscript", t.n, result, NoSession)
        /\ UNCHANGED <<currentSessionId, sessions, hfToken, storageCallbacks,
                       questionInputDisabled, askBtnDisabled, backendTranscript,
                       clicks, idClock, openData, appended>>

\* popup.js:363-379 and 386-389: the response is OK.  The id is
\* Date.now(); the get of the session record and the get of the "Ready"
\* message are issued one after the other.
ResyncOk(t) ==
    /\ idClock' = idClock + 1
    /\ currentSessionId' = idClock'
    /\ storageCallbacks' =
           AppendSave(
               Append(storageCallbacks,
                      Callback("create", t.n, sessions, NoToken, NoSession, NoMsg,
                               t.url, t.tr, "")),
               currentSessionId', sessions, "system", "ready", TRUE, TRUE)
    /\ chatContainer' = AppendBubble(Remove(chatContainer, t.n), "system", "ready", 0)
    /\ questionInputDisabled' = FALSE
    /\ askBtnDisabled' = FALSE
    /\ resyncBtnDisabled' = FALSE
    /\ requests' = requests \ {t}
    /\ appended' = Logged(appended, currentSessionId', "system", "ready", TRUE, TRUE)

\* A resync that took every response for OK (without the test of res.ok).
SaveOkAny(st) == st # "rejected"
\* popup.js:361: the fetch resolved and res.ok holds.
SaveOk(st) == st = "ok"

ResyncResume ==
    \E t \in requests, outcome \in Outcomes :
        /\ t.kind = "resync"
        /\ Answered(t, outcome)
        /\ IF SaveOk(outcome)
           THEN ResyncOk(t)
           ELSE /\ ResyncFailed(t)
                /\ UNCHANGED <<currentSessionId, storageCallbacks,
                               questionInputDisabled, askBtnDisabled, idClock,
                               appended>>
        /\ lastStep' = Step("resyncResume", t.n, outcome, currentSessionId')
        /\ UNCHANGED <<sessions, hfToken, backendTranscript, clicks, openData>>

\* popup.js:365-374, the callback of the get: the record is stored under
\* the currentSessionId read when the callback runs.
CreateStored(data, cur, url, tr) == Put(data, cur, NewSession(url, tr))

CreateCallback ==
    /\ storageCallbacks # <<>>
    /\ Head(storageCallbacks).k = "create"
    /\ sessions' = CreateStored(Head(storageCallbacks).data, currentSessionId,
                                Head(storageCallbacks).url, Head(storageCallbacks).tr)
    /\ storageCallbacks' = Tail(storageCallbacks)
    /\ lastStep' = OtherStep
    /\ UNCHANGED <<currentSessionId, hfToken, requests, chatContainer,
                   questionInputDisabled, askBtnDisabled, resyncBtnDisabled,
                   backendTranscript, clicks, idClock, openData, appended>>

\* ----------------------------------------------------------------- ask
\* popup.js:396-403 (and the Enter key, popup.js:446-450, which clicks the
\* button unless it is disabled): the question is read, then the handler
\* awaits the get of "hfToken".
AskClick ==
    /\ Gesture
    /\ ~askBtnDisabled
    /\ clicks' = clicks + 1
    /\ \E question \in Questions :
          storageCallbacks' = Append(storageCallbacks,
              Callback("ask", clicks', EmptySessions, hfToken, NoSession, NoMsg,
                       "", NoTranscript, question))
    /\ lastStep' = OtherStep
    /\ UNCHANGED <<currentSessionId, sessions, hfToken, requests, chatContainer,
                   questionInputDisabled, askBtnDisabled, resyncBtnDisabled,
                   backendTranscript, idClock, openData, appended>>

\* popup.js:412-425: the question is shown and saved, the button disabled,
\* "Analyzing..." shown and the /chat request sent with the token.
AskSend(cb) ==
    /\ storageCallbacks' = AppendSave(Tail(storageCallbacks), currentSessionId,
                                      sessions, "user", cb.q, FALSE, TRUE)
    /\ chatContainer' = AppendBubble(AppendBubble(chatContainer, "user", cb.q, 0),
                                     "system", "analyzing", cb.n)
    /\ askBtnDisabled' = TRUE
    /\ requests' = requests \cup
           {Request("chat", cb.n, "sent", currentSessionId, "", NoTranscript,
                    <<>>, cb.q, cb.tok)}
    /\ appended' = Logged(appended, currentSessionId, "user", cb.q, FALSE, TRUE)

\* An ask handler without the test of the token.
TokenNeverMissing(tok) == FALSE
\* popup.js:406: !question, and popup.js:407: !hfToken.
NoQuestion(q) == q = ""
NoSavedToken(tok) == tok = NoToken

\* popup.js:404-425, after the get of "hfToken".
AskCallback ==
    /\ storageCallbacks # <<>>
    /\ Head(storageCallbacks).k = "ask"
    /\ LET cb == Head(storageCallbacks)
       IN  IF NoQuestion(cb.q)
           THEN /\ storageCallbacks' = Tail(storageCallbacks)
                /\ lastStep' = Step("askEmpty", cb.n, "", NoSession)
                /\ UNCHANGED <<chatContainer, askBtnDisabled, requests, appended>>
           ELSE IF NoSavedToken(cb.tok)
           THEN /\ storageCallbacks' = Tail(storageCallbacks)
                /\ chatContainer' = AppendBubble(chatContainer, "system",
                                                 "needToken", 0)
                /\ lastStep' = Step("askNoToken", cb.n, "", NoSession)
                /\ UNCHANGED <<askBtnDisabled, requests, appended>>
           ELSE /\ AskSend(cb)
                /\ lastStep' = Step("askSent", cb.n, "", NoSession)
    /\ UNCHANGED <<currentSessionId, sessions, hfToken, questionInputDisabled,
                   resyncBtnDisabled, backendTranscript, clicks, idClock,
                   openData>>

\* The outcomes of the /chat request: a body with an answer, a body
\* without one, a response that is not OK, a rejected fetch.
ChatOutcomes == {"answer", "noanswer", "notok", "rejected"}

\* popup.js:427-442: what the handler shows for an outcome.
ChatShown(c, n, outcome) ==
    IF outcome = "answer" THEN AppendBubble(Remove(c, n), "ai", "answer", 0)
    ELSE IF outcome = "noanswer" THEN Remove(c, n)
    ELSE AppendBubble(Remove(c, n), "system", "chatError", 0)

ChatResume ==
    \E t \in requests :
        /\ t.kind = "chat"
        /\ \E outcome \in ChatOutcomes :
              /\ chatContainer' = ChatShown(chatContainer, t.n, outcome)
              /\ storageCallbacks' =
                     AppendSave(storageCallbacks, currentSessionId, sessions,
                                "ai", "answer", TRUE, outcome = "answer")
              /\ appended' = Logged(appended, currentSessionId, "ai", "answer",
                                     TRUE, outcome = "answer")
              /\ lastStep' = Step("chatResume", t.n, outcome, t.id)
        /\ askBtnDisabled' = FALSE
        /\ requests' = requests \ {t}
        /\ UNCHANGED <<currentSessionId, sessions, hfToken, questionInputDisabled,
                       resyncBtnDisabled, backendTranscript, clicks, idClock,
                       openData>>

\* ----------------------------------------------------------- API tab
\* popup.js:455-463: a non-empty token is stored.  (Storing the same
\* token again changes nothing.)
SaveToken ==
    /\ hfToken = NoToken
    /\ hfToken' = SomeToken
    /\ lastStep' = OtherStep
    /\ UNCHANGED clicks
    /\ UNCHANGED <<currentSessionId, sessions, storageCallbacks, requests,
                   chatContainer, questionInputDisabled, askBtnDisabled,
                   resyncBtnDisabled, backendTranscript, idClock, openData, appended>>

\* ------------------------------------------------------------- backend
\* The backend answers /save_transcript or /clear_context with OK: the
\* transcript is indexed in place of the one before, or the index is torn
\* down.  The response is then on its way to the popup.
Installed(t) == IF t.kind = "clear" THEN NoTranscript ELSE t.tr

BackendOk ==
    \E t \in requests :
        /\ t.kind \in {"clear", "restore", "resync"}
        /\ t.st = "sent"
        /\ requests' = (requests \ {t}) \cup {Settled(t, "ok")}
        /\ backendTranscript' = Installed(t)
        /\ lastStep' = OtherStep
        /\ UNCHANGED <<currentSessionId, sessions, hfToken, storageCallbacks,
                       chatContainer, questionInputDisabled, askBtnDisabled,
                       resyncBtnDisabled, clicks, idClock, openData, appended>>

\* ---------------------------------------------------------------- Next
Next ==
    \/ OpenCallbackRun /\ UNCHANGED utilities
    \/ OpenTab /\ UNCHANGED utilities
    \/ ClearClick /\ UNCHANGED utilities
    \/ ClearResume /\ UNCHANGED utilities
    \/ ClearCallback /\ UNCHANGED utilities
    \/ AppendCallbackRun /\ UNCHANGED utilities
    \/ RestoreClick /\ UNCHANGED utilities
    \/ LoadCallback /\ UNCHANGED utilities
    \/ RestoreResume /\ UNCHANGED utilities
    \/ ClearSelectedClick /\ UNCHANGED utilities
    \/ ClearSelectedCallback /\ UNCHANGED utilities
    \/ ResyncClick /\ UNCHANGED utilities
    \/ ResyncTab /\ UNCHANGED utilities
    \/ ResyncExtracted /\ UNCHANGED utilities
    \/ ResyncResume /\ UNCHANGED utilities
    \/ CreateCallback /\ UNCHANGED utilities
    \/ AskClick /\ UNCHANGED utilities
    \/ AskCallback /\ UNCHANGED utilities
    \/ ChatResume /\ UNCHANGED utilities
    \/ SaveToken /\ UNCHANGED utilities
    \/ BackendOk /\ UNCHANGED utilities

Spec == Init /\ [][Next]_vars

\* ------------------------------------------- the citation round trip
\* A chunk with a start time gets its citation label; the label is parsed
\* back to the time to seek to.
CitationInit ==
    /\ PopupOpened
    /\ start_time \in 0..MaxSeconds
    /\ hms = <<>>
    /\ answer = <<>>
    /\ segments = <<>>
    /\ returned = <<>>

MapToCitation ==
    /\ hms = <<>>
    /\ hms' = map_to_citation(start_time)
    /\ UNCHANGED <<popup, start_time, answer, segments, returned>>

ParseLabel ==
    /\ hms # <<>>
    /\ returned = <<>>
    /\ returned' = <<timestampToSeconds(hms)>>
    /\ UNCHANGED <<popup, start_time, hms, answer, segments>>

CitationNext == MapToCitation \/ ParseLabel
CitationSpec == CitationInit /\ [][CitationNext]_vars

\* ------------------------------------------------ linkifying an answer
LinkifyInit ==
    /\ PopupOpened
    /\ start_time = 0
    /\ hms = <<>>
    /\ answer \in Answers
    /\ segments = <<>>
    /\ returned = <<>>

Linkify ==
    /\ returned = <<>>
    /\ returned' = <<linkifyTimestamps(Flatten(answer))>>
    /\ UNCHANGED <<popup, start_time, hms, answer, segments>>

LinkifyNext == Linkify
LinkifySpec == LinkifyInit /\ [][LinkifyNext]_vars

\* ------------------------------------------ scraping a transcript page
ExtractInit ==
    /\ PopupOpened
    /\ start_time = 0
    /\ hms = <<>>
    /\ answer = <<>>
    /\ segments \in Pages
    /\ returned = <<>>

Extract ==
    /\ returned = <<>>
    /\ returned' = <<surgicalExtract(segments)>>
    /\ UNCHANGED <<popup, start_time, hms, answer, segments>>

ExtractNext == Extract
ExtractSpec == ExtractInit /\ [][ExtractNext]_vars

\* ---------------------------------------------------------- properties
Last(c) == c[Len(c)]
Chats == {t \in requests : t.kind = "chat"}
Stored(id) == Has(sessions, id)

\* C1: after performFullClear was confirmed on the active session S and
\* /clear_context resolved, S is gone from the stored sessions once the
\* storage callback of the clear has run.
C1_ClearDeletesSession ==
    lastStep.ev = "clearCallback" => ~Stored(lastStep.id)

\* C2: once all storage callbacks have run, the stored chatHistory of a
\* session holds exactly the messages appendMessage was asked to save while
\* the session was current, in append order (the "Ready" message of the
\* resync that created the session included).
C2_NoMessageLost ==
    storageCallbacks = <<>> =>
        \A id \in DOMAIN sessions : sessions[id].chatHistory = appended[id]

\* C3: whenever a /chat request is sent, the transcript installed at the
\* backend by /save_transcript is the transcriptData of the session named
\* by currentSessionId.  (Stated for a request sent while a stored session
\* is current and the backend holds a transcript: an index torn down by
\* /clear_context is not counted against the claim.)
C3_ChatUsesCurrentTranscript ==
    (/\ lastStep.ev = "askSent"
     /\ backendTranscript # NoTranscript
     /\ currentSessionId # NoSession
     /\ Stored(currentSessionId)) =>
        backendTranscript = sessions[currentSessionId].transcriptData

\* The step just taken is the one lastStep' names.
Took(evs) == lastStep' # lastStep /\ lastStep'.ev \in evs

\* C4: a restore enables the question input and the ask button only after
\* a /save_transcript request carrying the transcriptData stored for that
\* session returned OK; a restore whose request failed or was not OK
\* leaves the inputs as they were and shows the restore-failure message.
C4_RestoreSends ==
    Took({"loadCallback"}) =>
        \E t \in requests' \ requests :
            /\ t.kind = "restore"
            /\ t.id = Head(storageCallbacks).id
            /\ t.tr = Head(storageCallbacks).data[t.id].transcriptData
C4_RestoreResumes ==
    Took({"restoreResume"}) =>
        IF lastStep'.resp = "ok"
        THEN ~questionInputDisabled' /\ ~askBtnDisabled'
        ELSE /\ UNCHANGED <<questionInputDisabled, askBtnDisabled>>
             /\ Last(chatContainer').text = "restoreFailed"
C4_RestoreReindexesFirst == [][C4_RestoreSends /\ C4_RestoreResumes]_vars
C4_Witness ==
    /\ lastStep.ev = "restoreResume"
    /\ lastStep.resp = "ok"
    /\ ~questionInputDisabled /\ ~askBtnDisabled

\* C5: the citation label of every duration s of whole seconds (MM:SS when
\* the hours are 0, HH:MM:SS otherwise) is parsed by timestampToSeconds to
\* exactly s.
C5_LabelRoundTrip ==
    (hms # <<>> /\ returned # <<>>) =>
        /\ hms = map_to_citation(start_time)
        /\ returned = <<start_time>>

\* An HH:MM:SS label with no zero field has been parsed.
C5_Witness ==
    /\ returned = <<start_time>>
    /\ Len(split(hms)) = 3
    /\ \A i \in 1..3 : parseInt(split(hms)[i]) > 0

\* What the answer's pieces are to become: a marker one link with the
\* seconds of its start timestamp and the marker as its text, a character
\* of other text itself.
Cited(piece) ==
    IF piece.form = "other"
    THEN Plain(piece.text[1])
    ELSE Anchor(toString(piece.time), piece.text)
Expected(pieces) == [k \in 1..Len(pieces) |-> Cited(pieces[k])]
\* The returned HTML without the link tags.
RECURSIVE StripTags(_)
StripTags(html) == IF html = <<>> THEN <<>> ELSE Head(html).text \o StripTags(Tail(html))

\* The bare marker at k has a bracket of the other text directly beside it.
BesideBracket(pieces, k) ==
    \/ k > 1 /\ pieces[k - 1] = Other("(")
    \/ k < Len(pieces) /\ pieces[k + 1] = Other(")")
\* The bare marker at k is joined to a later bare marker by one dash, with
\* nothing but spaces around the dash.
JoinedByDash(pieces, k) ==
    \E j \in (k + 1)..Len(pieces) :
        /\ pieces[j].form = "bare"
        /\ \A i \in (k + 1)..(j - 1) : pieces[i] \in {Other(" "), Other("-")}
        /\ Cardinality({i \in (k + 1)..(j - 1) : pieces[i] = Other("-")}) = 1
Separated(pieces) ==
    \A k \in 1..Len(pieces) :
        pieces[k].form = "bare" =>
            ~BesideBracket(pieces, k) /\ ~JoinedByDash(pieces, k)

\* C6 as stated: linkifyTimestamps turns every marker [MM:SS],
\* (MM:SS - MM:SS) and bare MM:SS of the answer into exactly one link with
\* the seconds of the marker's start timestamp as data-time and the marker
\* as link text, and leaves all other text unchanged, so that the output
\* without the link tags is the input.
C6_EveryMarkerOneLink ==
    returned # <<>> =>
        /\ returned[1] = Expected(answer)
        /\ StripTags(returned[1]) = Flatten(answer)

\* C6: as above for every marker except a bare one that has a bracket of
\* the other text directly beside it or is joined by a dash to a following
\* bare marker (the match then takes the bracket, or both markers, into
\* one link); the output without the link tags is the input in every case.
C6_SeparatedMarkerOneLink ==
    returned # <<>> =>
        /\ Separated(answer) => returned[1] = Expected(answer)
        /\ StripTags(returned[1]) = Flatten(answer)

\* An answer with a marker of each form, one of them with hours, has been
\* linkified.
C6_Witness ==
    /\ returned # <<>>
    /\ Separated(answer)
    /\ \A f \in {"square", "range", "bare"} :
          \E k \in 1..Len(answer) : answer[k].form = f
    /\ \E k \in 1..Len(answer) : answer[k].time >= 3600

\* C7: when surgicalExtract returns null the resync handler sends no
\* /save_transcript request (no request ever carries an empty transcript)
\* and reports the sync failure.
C7_EmptyTranscriptNotIndexed ==
    /\ \A t \in requests :
          (t.kind = "resync" /\ t.st \notin {"query", "extract"}) =>
              t.tr # NoTranscript
    /\ (lastStep.resp = NoTranscript /\
        lastStep.ev \in {"resyncSent", "resyncNoTranscript"}) =>
          /\ \A t \in requests : t.n # lastStep.n
          /\ Last(chatContainer).text = "syncFailed"
C7_Witness ==
    lastStep.ev = "resyncNoTranscript" /\ lastStep.resp = NoTranscript

\* C8: a resync that fails (no YouTube tab, no transcript, request
\* rejected, response not OK) leaves currentSessionId and local storage
\* alone and issues no storage request; the storage request that writes
\* the session record is issued only after /save_transcript returned OK.
Creates(cbs) == Cardinality({i \in 1..Len(cbs) : cbs[i].k = "create"})
C8_FailureStep ==
    \/ Took({"resyncNotYouTube", "resyncNoTranscript"})
    \/ Took({"resyncResume"}) /\ lastStep'.resp # "ok"
C8_FailedResyncStoresNothing ==
    [][/\ C8_FailureStep =>
             UNCHANGED <<currentSessionId, sessions, storageCallbacks>>
       /\ Creates(storageCallbacks') > Creates(storageCallbacks) =>
             Took({"resyncResume"}) /\ lastStep'.resp = "ok"]_vars
C8_Witness ==
    lastStep.ev = "resyncResume" /\ lastStep.resp = "notok"

\* C9: a /chat request carries a non-empty question and the saved token;
\* when the question is empty or no token is stored, no request is sent,
\* no user message is appended or saved, the ask button is left alone.
UserBubbles(c) == Cardinality({i \in 1..Len(c) : c[i].sender = "user"})
C9_Refused ==
    /\ Took({"askEmpty", "askNoToken", "askSent"})
    /\ Head(storageCallbacks).q = "" \/ Head(storageCallbacks).tok = NoToken
C9_ChatNeedsQuestionAndToken ==
    /\ [](\A t \in Chats : t.q # "" /\ t.tok = SomeToken)
    /\ [][C9_Refused =>
            /\ UNCHANGED <<requests, askBtnDisabled, sessions, appended>>
            /\ storageCallbacks' = Tail(storageCallbacks)
            /\ UserBubbles(chatContainer') = UserBubbles(chatContainer)]_vars
C9_Witness ==
    lastStep.ev = "askSent" /\ Chats # {}

\* C10: every /chat request that was sent completes with its "Analyzing..."
\* message removed, the ask button enabled, and an AI answer or an error
\* message shown, whatever the outcome of the request.
C10_ChatAlwaysAnswered ==
    lastStep.ev = "chatResume" =>
        /\ \A i \in 1..Len(chatContainer) : chatContainer[i].el # lastStep.n
        /\ ~askBtnDisabled
        /\ chatContainer # <<>>
        /\ Last(chatContainer).text \in {"answer", "chatError"}

\* C11: when the /clear_context fetch of performFullClear rejects, the data
\* is still cleared locally: after the handler's catch has run the current
\* session is null, question input and ask button are disabled, and the
\* session the clear was confirmed for is removed from storage or its
\* removal is queued.
ClearQueued(n) ==
    \E i \in 1..Len(storageCallbacks) :
        storageCallbacks[i].k = "clear" /\ storageCallbacks[i].n = n
C11_RejectedClearClearsLocally ==
    (lastStep.ev = "clearResume" /\ lastStep.resp = "rejected") =>
        /\ currentSessionId = NoSession
        /\ questionInputDisabled
        /\ askBtnDisabled
        /\ ~Stored(lastStep.id) \/ ClearQueued(lastStep.n)

\* C12: when two transcript installs (restores, resyncs) started by the
\* user overlap, the later-started one wins and the stale one's result is
\* discarded: a successful completion of an install, while a later-started
\* install that the backend has answered with OK is still in flight,
\* leaves currentSessionId alone and renders nothing in the chat container
\* (it may remove its own progress message).
LaterInstall(n) ==
    \E u \in requests :
        /\ u.kind \in {"restore", "resync"}
        /\ u.st = "ok"
        /\ u.n # OpenHandler
        /\ n < u.n
C12_StaleCompletion ==
    /\ Took({"restoreResume", "resyncResume"})
    /\ lastStep'.resp = "ok"
    /\ lastStep'.n # OpenHandler
    /\ LaterInstall(lastStep'.n)
C12_StaleInstallDiscarded ==
    [][C12_StaleCompletion =>
          /\ currentSessionId' = currentSessionId
          /\ chatContainer' \in {chatContainer, Remove(chatContainer, lastStep'.n)}]_vars

\* C13: when the popup opens on a YouTube watch page and the stored
\* sessions it read hold one whose videoUrl equals the tab URL, the restore
\* of such a session is started, and its storage callback makes it current
\* and sends its transcript; when they hold none, the handler leaves
\* currentSessionId as it is (null if nothing else has run), sends no
\* request, starts no restore and tells the user to click Resync.  On any
\* other tab no restore is started and no request is sent.
OpenedOn(url) == Took({"openRestore", "openNoSession"}) /\ lastStep'.resp = url
C13_NothingRestored ==
    /\ lastStep'.ev = "openNoSession"
    /\ UNCHANGED <<currentSessionId, storageCallbacks>>
    /\ clicks = 0 => currentSessionId' = NoSession
    /\ requests' \subseteq requests
C13_OpenStep ==
    /\ \A url \in Videos :
          OpenedOn(url) =>
              IF \E id \in DOMAIN openData : openData[id].videoUrl = url
              THEN /\ lastStep'.ev = "openRestore"
                   /\ Len(storageCallbacks') = Len(storageCallbacks) + 1
                   /\ Last(storageCallbacks').k = "load"
                   /\ Last(storageCallbacks').n = OpenHandler
                   /\ Has(openData, Last(storageCallbacks').id)
                   /\ openData[Last(storageCallbacks').id].videoUrl = url
              ELSE /\ C13_NothingRestored
                   /\ Last(chatContainer').text = "newVideo"
    /\ OpenedOn(OtherTab) => C13_NothingRestored
C13_OpenLoad ==
    (Took({"loadCallback"}) /\ lastStep'.n = OpenHandler) =>
        /\ currentSessionId' = Head(storageCallbacks).id
        /\ \E t \in requests' \ requests :
              /\ t.kind = "restore"
              /\ t.id = currentSessionId'
              /\ t.tr = Head(storageCallbacks).data[t.id].transcriptData
C13_OpenRestoresStoredVideo == [][C13_OpenStep /\ C13_OpenLoad]_vars
\* The session of the open tab's video has been made current by the
\* DOMContentLoaded handler's restore.
C13_Witness ==
    /\ lastStep.ev = "loadCallback"
    /\ lastStep.n = OpenHandler
    /\ currentSessionId = lastStep.id
    /\ Stored(currentSessionId)

\* C14: the AI answer to a /chat request is stored in the chatHistory of
\* the session that was current when its question was asked and in no
\* other: no stored session holds more AI answers than questions that were
\* asked while it was current.
Count(sender, hist) == Cardinality({i \in 1..Len(hist) : hist[i].sender = sender})
C14_AnswerStoredWithQuestion ==
    \A id \in DOMAIN sessions :
        Count("ai", sessions[id].chatHistory) <= Count("user", appended[id])

\* C15: the storage callback of a successful resync stores the session
\* record under the id that resync generated, with its videoUrl and
\* transcript and an empty chatHistory, and changes no other record of the
\* store.  (Ids are generated and the callbacks run in the same order, so
\* the oldest pending callback belongs to the oldest id not yet stored.)
PendingCreates ==
    Cardinality({i \in 1..Len(storageCallbacks) : storageCallbacks[i].k = "create"})
GeneratedId == idClock - PendingCreates + 1
C15_CreateStep ==
    /\ storageCallbacks # <<>>
    /\ Head(storageCallbacks).k = "create"
    /\ storageCallbacks' = Tail(storageCallbacks)
C15_CreateStoresOwnRecord ==
    [][C15_CreateStep =>
          sessions' = Put(sessions, GeneratedId,
                          NewSession(Head(storageCallbacks).url,
                                     Head(storageCallbacks).tr))]_vars

\* C16: in every reachable state in which the question input or the ask
\* button is enabled, currentSessionId is non-null and names a session
\* that is present in local storage (or, right after a resync, whose
\* record is still queued to be stored).
C16_EnabledInputsHaveSession ==
    (~questionInputDisabled \/ ~askBtnDisabled) =>
        /\ currentSessionId # NoSession
        /\ Stored(currentSessionId) \/ PendingCreates > 0

\* C17: at most one /chat request is in flight at any time, and the ask
\* button is disabled for as long as one is.
C17_OneChatInFlight ==
    /\ Cardinality(Chats) <= 1
    /\ Chats # {} => askBtnDisabled

\* C18: surgicalExtract returns null when the page has no transcript
\* segments and otherwise one record per segment in page order: the time is
\* never empty and is "0:00" when the segment's timestamp is missing or
\* blank, otherwise the timestamp without the spaces around it; the text is
\* the empty string when the segment's text is missing or blank, otherwise
\* the text without the spaces around it.
Blank(el) == ~el.found \/ \A i \in 1..Len(el.textContent) : el.textContent[i] = " "
\* s is what is left of the element's text when the spaces at both ends
\* are taken away.
Inner(el, s) ==
    /\ s # <<>>
    /\ s[1] # " " /\ s[Len(s)] # " "
    /\ \E i \in 0..Len(el.textContent) :
          /\ i + Len(s) <= Len(el.textContent)
          /\ SubSeq(el.textContent, i + 1, i + Len(s)) = s
          /\ \A j \in 1..Len(el.textContent) :
                (j <= i \/ j > i + Len(s)) => el.textContent[j] = " "
C18_RecordOf(segment, record) ==
    /\ record.time # <<>>
    /\ IF Blank(segment.timestamp) THEN record.time = ZeroTime
       ELSE Inner(segment.timestamp, record.time)
    /\ IF Blank(segment.text) THEN record.text = <<>>
       ELSE Inner(segment.text, record.text)
C18_ExtractKeepsSegments ==
    returned # <<>> =>
        IF segments = <<>>
        THEN returned[1].null
        ELSE /\ ~returned[1].null
             /\ Len(returned[1].records) = Len(segments)
             /\ \A k \in 1..Len(segments) :
                   C18_RecordOf(segments[k], returned[1].records[k])
\* A page of several different segments, one without timestamp and one
\* with, has been scraped.
C18_Witness ==
    /\ returned # <<>>
    /\ Len(segments) >= 2
    /\ segments[1] # segments[2]
    /\ \E k \in 1..Len(segments) : Blank(segments[k].timestamp)
    /\ \E k \in 1..Len(segments) : ~Blank(segments[k].timestamp)

=============================================================================
